---- MODULE Spec2Model ----
(***************************************************************************)
(* Model of the vessel-command protocol codec: the speed/heading and route *)
(* command encoders (communication.py, controller.py), the platform-status *)
(* and surface-target decoders (receiver.py), and the UDP send path.       *)
(*                                                                         *)
(* Representation of Python values                                         *)
(*   - a real number is a fixed-point integer: speeds and headings are in  *)
(*     hundredths (1050 is 10.5), longitudes and latitudes in tenths of a  *)
(*     degree (1800 is 180.0);                                             *)
(*     for these inputs the exact arithmetic below gives the integers the  *)
(*     source's floating-point expressions give;                           *)
(*   - a 32-bit quantity is a pair [hi, lo] of 16-bit halves, value        *)
(*     hi * 65536 + lo, because it does not fit the checker's integers;    *)
(*   - bytes are sequences of 0..255;                                      *)
(*   - a call's result is a record: kind "bytes" (value), kind "raise"     *)
(*     (exc), kind "dict" (the decoded dictionary), kind "bool" (value),   *)
(*     kind "int", kind "float";                                           *)
(*   - the clock is a pair [sec, usec].                                    *)
(*                                                                         *)
(* Specifications                                                          *)
(*   Spec      one call of a codec or send function                        *)
(*   SpecClock get_timestamp() called while the clock advances             *)
(*   SpecGeo   convert_to_geo_format, then convert_from_geo_format         *)
(*   SpecRecv  the receive loop of receiver.py and its stop event          *)
(*   SpecCli   the command-line session of controller.py                   *)
(***************************************************************************)
EXTENDS Integers, Sequences, FiniteSets, TLC

VARIABLES
  now,    \* time.time(): [sec, usec], seconds since the epoch and microseconds
  fn,     \* the function called last
  args,   \* its arguments
  ret,    \* its result
  sent,   \* the datagrams the last call or command sent, in order
  out,    \* what the last call printed about a failure ("" when nothing)
  sock,   \* the calls the last call made on its socket, in order
  stop_event,  \* stop_event.is_set() of the receiver thread
  inbox,  \* the datagrams waiting in each multicast socket, oldest first
  pc,     \* where the receiver thread or the CLI session is
  shown,  \* the results the receiver thread displayed, in order
  session_seq  \* seq_num of main() in controller.py, the session's counter

vars ==
  <<now, fn, args, ret, sent, out, sock, stop_event, inbox, pc, shown,
    session_seq>>

----------------------------------------------------------------------------
(* Bounds of the model *)

\* sequence numbers passed to the encoders range over 0..MaxSeqNum
MaxSeqNum == 257
\* vessel indices passed to the encoders range over 0..MaxVesselId
MaxVesselId == 7
\* waypoint lists have up to MaxWaypoints entries
MaxWaypoints == 257

----------------------------------------------------------------------------
(* Python arithmetic and the struct module *)

\* int(x) for the rational x = n / d, d > 0: truncation toward zero
PyInt(n, d) == IF n >= 0 THEN n \div d ELSE -((-n) \div d)

Min(a, b) == IF a <= b THEN a ELSE b

\* data[a:b] for 0 <= a <= b
Slice(data, a, b) == SubSeq(data, a + 1, Min(b, Len(data)))

\* a small integer as a 32-bit pair
ToWide(v) == [hi |-> v \div 65536, lo |-> v % 65536]

WideNeg(w) ==
  IF w.lo = 0 THEN [hi |-> -w.hi, lo |-> 0]
  ELSE [hi |-> -w.hi - 1, lo |-> 65536 - w.lo]

\* struct: the size of one format character
FmtSize(c) ==
  CASE c = "B" -> 1
    [] c = "H" -> 2
    [] c = "h" -> 2
    [] c = "I" -> 4
    [] c = "i" -> 4

\* struct.pack raises struct.error for a value outside the format's range
InRange(c, v) ==
  CASE c = "B" -> v \in 0..255
    [] c = "H" -> v \in 0..65535
    [] c = "h" -> v \in -32768..32767
    [] c = "I" -> v.hi \in 0..65535
    [] c = "i" -> v.hi \in -32768..32767

\* the big-endian bytes of one value
FieldBytes(c, v) ==
  CASE c = "B" -> <<v>>
    [] c \in {"H", "h"} -> <<(v % 65536) \div 256, v % 256>>
    [] c \in {"I", "i"} ->
         <<(v.hi % 65536) \div 256, v.hi % 256, v.lo \div 256, v.lo % 256>>

RECURSIVE calcsize(_)
calcsize(fmt) ==
  IF fmt = <<>> THEN 0 ELSE FmtSize(Head(fmt)) + calcsize(Tail(fmt))

RECURSIVE PackFields(_, _)
PackFields(fmt, values) ==
  IF fmt = <<>> THEN <<>>
  ELSE FieldBytes(Head(fmt), Head(values)) \o PackFields(Tail(fmt), Tail(values))

StructError == [kind |-> "raise", exc |-> "struct.error"]

\* struct.pack('>' + fmt, *values)
pack(fmt, values) ==
  IF \A i \in 1..Len(fmt) : InRange(fmt[i], values[i])
  THEN [kind |-> "bytes", value |-> PackFields(fmt, values)]
  ELSE StructError

\* one value read from its big-endian bytes
FieldValue(c, b) ==
  CASE c = "B" -> b[1]
    [] c = "H" -> b[1] * 256 + b[2]
    [] c = "h" -> IF b[1] >= 128 THEN b[1] * 256 + b[2] - 65536 ELSE b[1] * 256 + b[2]
    [] c = "I" -> [hi |-> b[1] * 256 + b[2], lo |-> b[3] * 256 + b[4]]
    [] c = "i" -> [hi |-> IF b[1] >= 128 THEN b[1] * 256 + b[2] - 65536
                          ELSE b[1] * 256 + b[2],
                   lo |-> b[3] * 256 + b[4]]

RECURSIVE UnpackFields(_, _)
UnpackFields(fmt, data) ==
  IF fmt = <<>> THEN <<>>
  ELSE <<FieldValue(Head(fmt), SubSeq(data, 1, FmtSize(Head(fmt))))>>
       \o UnpackFields(Tail(fmt), SubSeq(data, FmtSize(Head(fmt)) + 1, Len(data)))

\* struct.unpack('>' + fmt, data): the buffer must have exactly the format's size
unpack(fmt, data) ==
  IF Len(data) = calcsize(fmt)
  THEN [kind |-> "tuple", value |-> UnpackFields(fmt, data)]
  ELSE StructError

----------------------------------------------------------------------------
(* communication.py / controller.py: addressing table and timestamp *)

\* the code computed from the index, without the table's fallback
VESSEL_CODES_get_NoFallback(vessel_id, default) == 20480 + vessel_id

VESSEL_CODES_get(vessel_id, default) ==
  CASE vessel_id = 1 -> 20481   \* 0x5001
    [] vessel_id = 2 -> 20482   \* 0x5002
    [] vessel_id = 3 -> 20483   \* 0x5003
    [] vessel_id = 4 -> 20484   \* 0x5004
    [] vessel_id = 5 -> 20485   \* 0x5005
    [] OTHER -> default

\* rounds the microseconds to the nearest 0.1 ms instead of truncating them
get_timestamp_Rounded(t) == (t.sec % 86400) * 10000 + (t.usec + 50) \div 100

\* int((now - (now - now % 86400)) * 10000), in 0.1 ms units; int() truncates
get_timestamp(t) == (t.sec % 86400) * 10000 + PyInt(t.usec, 100)

----------------------------------------------------------------------------
(* The speed/heading encoder.  speed and direction are in hundredths. *)

\* '>BBHIHHHBBHHHIH'
SpeedFormat == <<"B", "B", "H", "I", "H", "H", "H", "B", "B", "H", "H", "H", "I", "H">>

SpeedPacketFields(t, seq_num, vessel_id, speed, direction) ==
  LET unit_seq == seq_num % 256                       \* seq_num & 0xFF
      unit_id == 1
      unit_length == 28                               \* 0x001C
      timestamp == get_timestamp(t)
      sender_code == 1793                             \* 0x0701
      secondary_id == 832                             \* 0x0340
      receiver_code == VESSEL_CODES_get(vessel_id, 20481)
      data_source == 1
      param_id == 7
      speed_value == PyInt(speed * 10, 100)
      direction_value == PyInt(direction * 10, 100) % 65536
      command_time == 0
      command_seq == 0
      platform_code == receiver_code
  IN  <<unit_seq, unit_id, unit_length, ToWide(timestamp), sender_code,
        secondary_id, receiver_code, data_source, param_id, speed_value,
        direction_value, command_time, ToWide(command_seq), platform_code>>

\* the speed passed on unscaled: the field holds knots, not tenths of a knot
create_command_packet_SpeedUnscaled(t, seq_num, vessel_id, speed, direction) ==
  pack(SpeedFormat, SpeedPacketFields(t, seq_num, vessel_id, speed \div 10, direction))

\* communication.py
create_command_packet(t, seq_num, vessel_id, speed, direction) ==
  pack(SpeedFormat, SpeedPacketFields(t, seq_num, vessel_id, speed, direction))

\* controller.py
create_speed_packet(t, seq_num, vessel_id, speed, direction) ==
  pack(SpeedFormat, SpeedPacketFields(t, seq_num, vessel_id, speed, direction))

\* the socket is left open when sendto raises
send_command_NoFinally(packet, sendto_ok, datagrams) ==
  IF sendto_ok
  THEN [ret |-> TRUE, sent |-> Append(datagrams, packet), out |-> "",
        sock |-> <<[op |-> "socket"], [op |-> "sendto", data |-> packet],
                   [op |-> "close"]>>]
  ELSE [ret |-> FALSE, sent |-> datagrams, out |-> "send failed",
        sock |-> <<[op |-> "socket"], [op |-> "sendto", data |-> packet]>>]

\* communication.py, send_command: a socket is opened, sendto is tried once, and
\* the finally clause closes the socket whether sendto returned or raised.
\* sendto_ok is whether sendto succeeds; the result is the value returned, the
\* datagrams sent, the failure printed and the calls made on the socket
send_command(packet, sendto_ok, datagrams) ==
  IF sendto_ok
  THEN [ret |-> TRUE, sent |-> Append(datagrams, packet), out |-> "",
        sock |-> <<[op |-> "socket"], [op |-> "sendto", data |-> packet],
                   [op |-> "close"]>>]
  ELSE [ret |-> FALSE, sent |-> datagrams, out |-> "send failed",
        sock |-> <<[op |-> "socket"], [op |-> "sendto", data |-> packet],
                   [op |-> "close"]>>]

----------------------------------------------------------------------------
(* controller.py: the route encoder.  Longitude and latitude are in tenths *)
(* of a degree, waypoint speeds in hundredths.                             *)

\* int(degree / 180.0 * 2**31) = int(degree10 * 2^28 / 225), as a 32-bit pair
\* (the quotient is built 14 bits at a time; it reaches 2^31 at 180 degrees)
GeoMagnitude(a) ==
  LET q1 == (a * 16384) \div 225
      r1 == (a * 16384) % 225
      t  == (r1 * 16384) \div 225
  IN  [hi |-> q1 \div 4, lo |-> (q1 % 4) * 16384 + t]

convert_to_geo_format(degree) ==
  IF degree >= 0 THEN GeoMagnitude(degree) ELSE WideNeg(GeoMagnitude(-degree))

\* '>BBHIHHHBBHHHHHIHBHB'
RouteHeaderFormat ==
  <<"B", "B", "H", "I", "H", "H", "H", "B", "B", "H", "H", "H", "H", "H", "I", "H",
    "B", "H", "B">>

\* '>BiiHI'
WaypointFormat == <<"B", "i", "i", "H", "I">>

ValueError == [kind |-> "raise", exc |-> "ValueError"]

\* one pass of the loop of create_route_packet: the 15 bytes of a waypoint
WaypointData(wp) ==
  LET waypoint_type == 0
      lon_value == convert_to_geo_format(wp.lon)
      lat_value == convert_to_geo_format(wp.lat)
      speed_value == PyInt(wp.speed * 10, 100)
      time_value == 0
  IN  pack(WaypointFormat,
           <<waypoint_type, lon_value, lat_value, speed_value, ToWide(time_value)>>)

\* the loop of create_route_packet over waypoints lo..hi: their bytes in list
\* order, or the struct.error of the first waypoint that does not pack (the
\* range is halved to keep the evaluation shallow)
RECURSIVE AppendWaypoints(_, _, _)
AppendWaypoints(waypoints, lo, hi) ==
  IF lo > hi THEN [kind |-> "bytes", value |-> <<>>]
  ELSE IF lo = hi THEN WaypointData(waypoints[lo])
  ELSE LET mid == (lo + hi) \div 2
           left == AppendWaypoints(waypoints, lo, mid)
           right == AppendWaypoints(waypoints, mid + 1, hi)
       IN  IF left.kind = "raise" THEN left
           ELSE IF right.kind = "raise" THEN right
           ELSE [kind |-> "bytes", value |-> left.value \o right.value]

\* create_route_packet after its check of the waypoint count
BuildRoutePacket(t, seq_num, vessel_id, waypoints) ==
  LET waypoint_count == Len(waypoints)
      unit_seq == seq_num % 256
      unit_id == 1
      unit_length == 38 + 15 * waypoint_count
      timestamp == get_timestamp(t)
      sender_code == 1793                             \* 0x0701
      secondary_id == 832                             \* 0x0340
      receiver_code == VESSEL_CODES_get(vessel_id, 20481)
      data_source == 1
      param_id == 1
      command_code == 0
      command_time == 0
      command_seq == 0
      platform_code == receiver_code
      route_num == 0
      route_direction == 0
      route_start_time == 0
      route_section_count == 1
      route_command == 0
      waypoint_count_field == waypoint_count
      header == pack(RouteHeaderFormat,
                     <<unit_seq, unit_id, unit_length, ToWide(timestamp), sender_code,
                       secondary_id, receiver_code, data_source, param_id,
                       command_code, command_time, command_seq, platform_code,
                       route_num, ToWide(route_direction), route_start_time,
                       route_section_count, route_command, waypoint_count_field>>)
      replan_time == 0
  IN  IF header.kind = "raise" THEN header
      ELSE LET body == AppendWaypoints(waypoints, 1, waypoint_count)
           IN  IF body.kind = "raise" THEN body
               ELSE [kind |-> "bytes",
                     value |-> header.value \o body.value
                               \o pack(<<"H">>, <<replan_time>>).value]

\* the upper limit of the waypoint count not checked
create_route_packet_NoUpperLimit(t, seq_num, vessel_id, waypoints) ==
  IF Len(waypoints) < 2 THEN ValueError
  ELSE BuildRoutePacket(t, seq_num, vessel_id, waypoints)

create_route_packet(t, seq_num, vessel_id, waypoints) ==
  IF Len(waypoints) < 2 \/ Len(waypoints) > 255 THEN ValueError
  ELSE BuildRoutePacket(t, seq_num, vessel_id, waypoints)

\* the calls made on a socket that is opened, sent to once and closed
SocketCalls(packet) ==
  <<[op |-> "socket"], [op |-> "sendto", data |-> packet], [op |-> "close"]>>

\* send_speed: one sendto on a fresh socket, closed on every path.  sendto_ok
\* is whether sendto succeeds; the result is the value returned, the datagrams
\* sent, the failure printed and the calls made on the socket
send_speed(packet, sendto_ok, datagrams) ==
  IF sendto_ok
  THEN [ret |-> TRUE, sent |-> Append(datagrams, packet), out |-> "",
        sock |-> SocketCalls(packet)]
  ELSE [ret |-> FALSE, sent |-> datagrams, out |-> "send failed",
        sock |-> SocketCalls(packet)]

\* send_route_command builds the packet with seq_num = 1 and sends it; any
\* exception of the encoder is caught, printed, and reported as False
send_route_command(t, vessel_id, waypoints, sendto_ok, datagrams) ==
  LET seq_num == 1
      packet == create_route_packet(t, seq_num, vessel_id, waypoints)
  IN  IF packet.kind = "raise"
      THEN [ret |-> FALSE, sent |-> datagrams,
            out |-> "create failed: " \o packet.exc, sock |-> <<>>]
      ELSE send_speed(packet.value, sendto_ok, datagrams)

----------------------------------------------------------------------------
(* receiver.py: the decoders.  A decoded dictionary is a record; its keys   *)
(* are the English names of the source's keys.  An error dictionary has the *)
(* one key "error".                                                         *)

PACKET_LENGTH == 44
\* the header counted one byte too long
MIN_TARGET_PACKET_LENGTH_OffByOne == 17 + 1

MIN_TARGET_PACKET_LENGTH == 17

\* loses the carry of the low half into the high half
convert_from_geo_format_NoCarry(geo_value) ==
  LET c == geo_value.lo * 180
      h == geo_value.hi * 180
  IN  [whole |-> h \div 32768, frac |-> (h % 32768) * 65536 + (c % 65536)]

\* raw * 180 / 2^31 degrees for the 32-bit pair raw, exactly:
\* whole + frac / 2^31 with 0 <= frac < 2^31
convert_from_geo_format(geo_value) ==
  LET c == geo_value.lo * 180
      h == geo_value.hi * 180 + c \div 65536
  IN  [whole |-> h \div 32768, frac |-> (h % 32768) * 65536 + (c % 65536)]

\* value * 180 / 2^15 degrees, exactly: whole + frac / 2^15 with 0 <= frac < 2^15
convert_angular_value(value) ==
  [whole |-> (value * 180) \div 32768, frac |-> (value * 180) % 32768]

\* float(value) / 10.0
Tenths(value) == [num |-> value, den |-> 10]

\* VESSEL_CODES.get(sender_code, "unknown platform (0x....)") of receiver.py
VesselName(sender_code) ==
  IF sender_code \in 20481..20485
  THEN [known |-> TRUE, vessel |-> sender_code - 20480]
  ELSE [known |-> FALSE, code |-> sender_code]

\* TARGET_TYPES.get(target_type, "unknown type (...)")
TargetTypeName(target_type) ==
  CASE target_type = 0 -> "unknown"
    [] target_type = 1 -> "ship"
    [] target_type = 2 -> "boat"
    [] target_type = 3 -> "buoy"
    [] OTHER -> "unknown type"

ErrTruncated(have, need) ==
  [kind |-> "dict", value |-> [error |-> [what |-> "length", have |-> have, need |-> need]]]
ErrUnitId(unit_id) ==
  [kind |-> "dict", value |-> [error |-> [what |-> "unit_id", got |-> unit_id]]]
ErrSecondaryId(secondary_id) ==
  [kind |-> "dict", value |-> [error |-> [what |-> "secondary_id", got |-> secondary_id]]]
\* the exception leaves the parse function
ErrException_Propagated(exc) == [kind |-> "raise", exc |-> exc]

\* except Exception as e: return {"error": ...}
ErrException(exc) ==
  [kind |-> "dict", value |-> [error |-> [what |-> "exception", exc |-> exc]]]

Hemisphere(deg, pos, neg) == IF deg.whole >= 0 THEN pos ELSE neg

\* '>BBHIHHHBB'
HeaderFormat == <<"B", "B", "H", "I", "H", "H", "H", "B", "B">>

\* '>iihhhhhBBhBBhh'
StatusFormat ==
  <<"i", "i", "h", "h", "h", "h", "h", "B", "B", "h", "B", "B", "h", "h">>

\* the try block of parse_vessel_status
DecodeStatus(data) ==
    LET hdr == unpack(HeaderFormat, Slice(data, 0, 16))
    IN  IF hdr.kind = "raise" THEN ErrException(hdr.exc)
        ELSE
          LET unit_seq == hdr.value[1]
              unit_id == hdr.value[2]
              unit_length == hdr.value[3]
              timestamp == hdr.value[4]
              sender_code == hdr.value[5]
              secondary_id == hdr.value[6]
              data_source == hdr.value[8]
              body == unpack(StatusFormat, Slice(data, 16, Len(data)))
          IN  IF unit_id # 3 THEN ErrUnitId(unit_id)
              ELSE IF body.kind = "raise" THEN ErrException(body.exc)
              ELSE
                LET longitude == convert_from_geo_format(body.value[1])
                    latitude == convert_from_geo_format(body.value[2])
                    altitude == body.value[3]
                    speed_value == Tenths(body.value[4])
                    heading_value == convert_angular_value(body.value[5])
                    course_value == convert_angular_value(body.value[6])
                    simulation_flag == body.value[9]
                    gimbal_angle_value == convert_angular_value(body.value[10])
                    ammo == body.value[11]
                    fuel == body.value[12]
                    body_angle_value == convert_angular_value(body.value[13])
                IN  [kind |-> "dict",
                     value |->
                       [seq |-> unit_seq,
                        packet_id |-> unit_id,
                        length |-> unit_length,
                        timestamp |-> timestamp,
                        platform |-> VesselName(sender_code),
                        secondary |-> secondary_id,
                        data_source |-> IF data_source # 0 THEN "shore console"
                                        ELSE "platform",
                        longitude |-> [deg |-> longitude,
                                       side |-> Hemisphere(longitude, "E", "W")],
                        latitude |-> [deg |-> latitude,
                                      side |-> Hemisphere(latitude, "N", "S")],
                        altitude |-> altitude,
                        speed |-> speed_value,
                        heading |-> heading_value,
                        course |-> course_value,
                        simulation |-> IF simulation_flag # 0 THEN "simulated"
                                       ELSE "real",
                        ammo |-> ammo,
                        fuel |-> fuel,
                        gimbal_angle |-> gimbal_angle_value,
                        body_angle |-> body_angle_value]]

\* the length check off by one
parse_vessel_status_LengthOffByOne(data) ==
  IF Len(data) <= PACKET_LENGTH THEN ErrTruncated(Len(data), PACKET_LENGTH)
  ELSE DecodeStatus(data)

parse_vessel_status(data) ==
  IF Len(data) < PACKET_LENGTH THEN ErrTruncated(Len(data), PACKET_LENGTH)
  ELSE DecodeStatus(data)

\* '>HiiIHHHI'
TargetFormat == <<"H", "i", "i", "I", "H", "H", "H", "I">>

\* the loop of parse_surface_targets from target i on; targets holds the
\* records decoded so far.  The unpacked tuple is bound to nine names.
RECURSIVE ParseTargets(_, _, _, _)
ParseTargets(data, target_count, i, targets) ==
  IF i >= target_count THEN [kind |-> "list", value |-> targets]
  ELSE
    LET offset == 17 + i * 26
        u == unpack(TargetFormat, Slice(data, offset, offset + 26))
    IN  IF u.kind = "raise" THEN u
        ELSE IF Len(u.value) # 9 THEN ValueError
        ELSE
          LET longitude == convert_from_geo_format(u.value[2])
              latitude == convert_from_geo_format(u.value[3])
              target_info ==
                [batch |-> u.value[1],
                 longitude |-> [deg |-> longitude,
                                side |-> Hemisphere(longitude, "E", "W")],
                 latitude |-> [deg |-> latitude,
                               side |-> Hemisphere(latitude, "N", "S")],
                 bearing |-> convert_angular_value(u.value[4]),
                 distance |-> u.value[5],
                 speed |-> Tenths(u.value[6]),
                 heading |-> Tenths(u.value[7]),
                 type |-> TargetTypeName(u.value[8]),
                 feature |-> u.value[9]]
          IN  ParseTargets(data, target_count, i + 1, Append(targets, target_info))

\* the try block of parse_surface_targets
DecodeTargets(data) ==
    LET hdr == unpack(HeaderFormat, Slice(data, 0, 16))
    IN  IF hdr.kind = "raise" THEN ErrException(hdr.exc)
        ELSE
          LET unit_seq == hdr.value[1]
              unit_id == hdr.value[2]
              unit_length == hdr.value[3]
              timestamp == hdr.value[4]
              sender_code == hdr.value[5]
              secondary_id == hdr.value[6]
              data_source == hdr.value[8]
              target_count == data[17]                \* data[16]
              expected_length == 17 + 26 * target_count
              base_info ==
                [seq |-> unit_seq,
                 packet_id |-> unit_id,
                 length |-> unit_length,
                 timestamp |-> timestamp,
                 platform |-> VesselName(sender_code),
                 secondary |-> secondary_id,
                 data_source |-> IF data_source # 0 THEN "shore console"
                                 ELSE "platform",
                 target_count |-> target_count]
              parsed == ParseTargets(data, target_count, 0, <<>>)
          IN  IF unit_id # 3 THEN ErrUnitId(unit_id)
              ELSE IF secondary_id # 3616 THEN ErrSecondaryId(secondary_id)   \* 0x0E20
              ELSE IF Len(data) < expected_length
                   THEN ErrTruncated(Len(data), expected_length)
              ELSE IF parsed.kind = "raise" THEN ErrException(parsed.exc)
              ELSE [kind |-> "dict",
                    value |-> [base_info |-> base_info, targets |-> parsed.value]]

parse_surface_targets(data) ==
  IF Len(data) < MIN_TARGET_PACKET_LENGTH
  THEN ErrTruncated(Len(data), MIN_TARGET_PACKET_LENGTH)
  ELSE DecodeTargets(data)

----------------------------------------------------------------------------
(* Inputs *)

\* clock readings: midnight, the last microsecond of a day, the next midnight,
\* midday
ClockValues ==
  { [sec |-> 0, usec |-> 0], [sec |-> 86399, usec |-> 999999],
    [sec |-> 86400, usec |-> 0], [sec |-> 1793534400, usec |-> 500000] }

\* speeds in hundredths of a knot: 0, 0.05, 5.0, 10.5, 3276.7, 3276.8, 6553.5,
\* 6553.6, 7000.0 and the reverse speeds -0.05, -1.0, -10.5, -3276.8, -3276.9
Speeds ==
  { 0, 5, 500, 1050, 327670, 327680, 655350, 655359, 655360, 700000,
    -5, -100, -1050, -327680, -327690 }

\* headings in hundredths of a degree: 0, 45.0, 90.0, 123.45, 359.99
Headings == { 0, 4500, 9000, 12345, 35999 }

SpeedArgs ==
  [seq_num : 0..MaxSeqNum, vessel_id : {3}, speed : {1050, -100}, direction : {4500}]
  \cup
  [seq_num : {1, 5}, vessel_id : (0..MaxVesselId) \cup {99}, speed : Speeds,
   direction : Headings]

\* waypoint lists: n copies of base, with the waypoint at position k replaced
WaypointList(n, base, special, k) ==
  [i \in 1..n |-> IF i = k THEN special ELSE base]

Waypoint(lon, lat, speed) == [lon |-> lon, lat |-> lat, speed |-> speed]

\* list lengths: 0..3 and the four lengths up to MaxWaypoints
RouteCounts == (0..3) \cup ((MaxWaypoints - 3)..MaxWaypoints)

\* -180, -90, 0, 116.4, 179.9, 180, 180.1 degrees
Longitudes == { -1800, -900, 0, 1164, 1799, 1800, 1801 }
\* -90, 0, 39.9, 90 degrees
Latitudes == { -900, 0, 399, 900 }

BaseWaypoints == { Waypoint(1164, 399, 500), Waypoint(-1800, -900, 0) }

SpecialWaypoints ==
  { Waypoint(lon, lat, 500) : lon \in Longitudes, lat \in Latitudes }
  \cup { Waypoint(0, 0, v) : v \in {0, 5, 1050, 655350, 655360, -100} }

RouteArgs ==
  UNION { { [seq_num |-> q, vessel_id |-> v, waypoints |-> WaypointList(n, b, w, k)] :
              q \in {MaxSeqNum}, v \in {1, MaxVesselId},
              b \in BaseWaypoints, w \in SpecialWaypoints, k \in {1, n} } :
          n \in RouteCounts }

SendRouteArgs ==
  UNION { { [vessel_id |-> v, waypoints |-> WaypointList(n, b, w, 1), sendto_ok |-> ok] :
              v \in {1, MaxVesselId}, b \in BaseWaypoints,
              w \in { Waypoint(1164, 399, 500), Waypoint(1800, 0, 500) },
              ok \in BOOLEAN } :
          n \in RouteCounts }

\* send_command is given the packets communication.py's main() builds, and
\* byte strings of other lengths
SendCommandArgs ==
  { [packet |-> p, sendto_ok |-> ok] :
      p \in { create_command_packet(t, q, v, 500, 9000).value :
                t \in ClockValues, q \in {1, 255}, v \in {1, 5} }
            \cup { <<>>, <<0>>, <<255, 0, 255>> },
      ok \in BOOLEAN }

\* a datagram of len bytes: a header with the given unit identifier (byte 1)
\* and secondary identifier (bytes 10..11), byte 16 as given, and every other
\* byte a function of its position
Datagram(len, unit_id, secondary_id, byte16, fill) ==
  [i \in 1..len |->
     CASE i = 2 -> unit_id
       [] i = 11 -> secondary_id \div 256
       [] i = 12 -> secondary_id % 256
       [] i = 17 -> byte16
       [] OTHER -> (fill * i) % 256]

\* the largest datagram the receive loop reads: recvfrom(1024)
RecvBufSize == 1024

StatusArgs ==
  { [data |-> Datagram(len, u, s, b, f)] :
      len \in {0, 1, 2, 16, 43, 44, 45, 70, RecvBufSize},
      u \in {1, 2, 3, 255}, s \in {832, 3616}, b \in {0, 128}, f \in {0, 1, 37} }

\* lengths around 17, 17 + 26, 17 + 26 * 2, 17 + 26 * 3 and 17 + 26 * 255
TargetArgs ==
  { [data |-> Datagram(len, u, s, c, f)] :
      len \in {0, 1, 16, 17, 18, 42, 43, 44, 69, 70, 94, 95, RecvBufSize, 6646, 6647},
      u \in {1, 3}, s \in {832, 3616, 3617}, c \in {0, 1, 2, 3, 255}, f \in {0, 37} }

----------------------------------------------------------------------------
(* The codec calls: Init draws the clock reading, the function and its      *)
(* arguments; the function's action applies it once.                        *)

NoRet == [kind |-> "none"]

Functions ==
  {"create_command_packet", "create_speed_packet", "create_route_packet",
   "send_command", "send_route_command", "parse_vessel_status",
   "parse_surface_targets"}

ArgsOf(f) ==
  CASE f \in {"create_command_packet", "create_speed_packet"} -> SpeedArgs
    [] f = "create_route_packet" -> RouteArgs
    [] f = "send_command" -> SendCommandArgs
    [] f = "send_route_command" -> SendRouteArgs
    [] f = "parse_vessel_status" -> StatusArgs
    [] f = "parse_surface_targets" -> TargetArgs

Init ==
  /\ now \in ClockValues
  /\ fn \in Functions
  /\ args \in ArgsOf(fn)
  /\ ret = NoRet
  /\ sent = <<>>
  /\ out = ""
  /\ sock = <<>>
  /\ stop_event = FALSE
  /\ inbox = <<>>
  /\ pc = "none"
  /\ shown = <<>>
  /\ session_seq = 1

CallCreateCommandPacket ==
  /\ fn = "create_command_packet" /\ ret = NoRet
  /\ ret' = create_command_packet(now, args.seq_num, args.vessel_id, args.speed,
                                  args.direction)
  /\ UNCHANGED <<now, fn, args, sent, out, sock, stop_event, inbox, pc, shown,
                 session_seq>>

CallCreateSpeedPacket ==
  /\ fn = "create_speed_packet" /\ ret = NoRet
  /\ ret' = create_speed_packet(now, args.seq_num, args.vessel_id, args.speed,
                                args.direction)
  /\ UNCHANGED <<now, fn, args, sent, out, sock, stop_event, inbox, pc, shown,
                 session_seq>>

CallCreateRoutePacket ==
  /\ fn = "create_route_packet" /\ ret = NoRet
  /\ ret' = create_route_packet(now, args.seq_num, args.vessel_id, args.waypoints)
  /\ UNCHANGED <<now, fn, args, sent, out, sock, stop_event, inbox, pc, shown,
                 session_seq>>

CallSendCommand ==
  /\ fn = "send_command" /\ ret = NoRet
  /\ LET r == send_command(args.packet, args.sendto_ok, sent)
     IN  /\ ret' = [kind |-> "bool", value |-> r.ret]
         /\ sent' = r.sent
         /\ out' = r.out
         /\ sock' = r.sock
  /\ UNCHANGED <<now, fn, args, stop_event, inbox, pc, shown, session_seq>>

CallSendRouteCommand ==
  /\ fn = "send_route_command" /\ ret = NoRet
  /\ LET r == send_route_command(now, args.vessel_id, args.waypoints, args.sendto_ok,
                                 sent)
     IN  /\ ret' = [kind |-> "bool", value |-> r.ret]
         /\ sent' = r.sent
         /\ out' = r.out
         /\ sock' = r.sock
  /\ UNCHANGED <<now, fn, args, stop_event, inbox, pc, shown, session_seq>>

CallParseVesselStatus ==
  /\ fn = "parse_vessel_status" /\ ret = NoRet
  /\ ret' = parse_vessel_status(args.data)
  /\ UNCHANGED <<now, fn, args, sent, out, sock, stop_event, inbox, pc, shown,
                 session_seq>>

CallParseSurfaceTargets ==
  /\ fn = "parse_surface_targets" /\ ret = NoRet
  /\ ret' = parse_surface_targets(args.data)
  /\ UNCHANGED <<now, fn, args, sent, out, sock, stop_event, inbox, pc, shown,
                 session_seq>>

Next ==
  \/ CallCreateCommandPacket
  \/ CallCreateSpeedPacket
  \/ CallCreateRoutePacket
  \/ CallSendCommand
  \/ CallSendRouteCommand
  \/ CallParseVesselStatus
  \/ CallParseSurfaceTargets

Spec == Init /\ [][Next]_vars

----------------------------------------------------------------------------
(* Reading a packet *)

Called(f) == fn = f /\ ret # NoRet

\* the unsigned 16-bit big-endian field at byte offset off (from 0)
U16(b, off) == b[off + 1] * 256 + b[off + 2]

SpeedEncoderCalled == Called("create_command_packet") \/ Called("create_speed_packet")

\* the unit code of vessel index i in 1..5: 0x5001..0x5005
UnitCode(i) == 20480 + i

\* the header fields of a speed/heading packet that do not depend on the speed
SpeedHeaderFieldsOk(b) ==
  /\ Len(b) = 28
  /\ \A i \in 1..28 : b[i] \in 0..255
  /\ b[1] = args.seq_num
  /\ b[2] = 1
  /\ U16(b, 2) = 28
  /\ U16(b, 8) = 1793
  /\ U16(b, 10) = 832
  /\ U16(b, 12) = UnitCode(args.vessel_id)
  /\ b[15] = 1
  /\ b[16] = 7
  /\ \A i \in 21..26 : b[i] = 0
  /\ U16(b, 26) = UnitCode(args.vessel_id)

C1Domain ==
  /\ args.seq_num \in 0..255
  /\ args.vessel_id \in 1..5
  /\ args.speed >= 0
  /\ args.direction \in 0..35999

\* the speed and heading fields hold the integer part of speed x 10 and of
\* heading x 10 (speeds and headings are in hundredths, the fields in tenths)
SpeedFieldsOk(b) ==
  /\ U16(b, 16) * 10 <= args.speed
  /\ args.speed < U16(b, 16) * 10 + 10
  /\ U16(b, 18) * 10 <= args.direction
  /\ args.direction < U16(b, 18) * 10 + 10

C2_NegativeSpeedEncoded ==
  (SpeedEncoderCalled /\ args.speed > -327690 /\ args.speed < 327680) =>
    /\ ret.kind = "bytes"
    /\ Len(ret.value) = 28
    /\ \E v \in -32768..32767 :
         /\ IF args.speed >= 0
            THEN v * 10 <= args.speed /\ args.speed < v * 10 + 10
            ELSE v * 10 - 10 < args.speed /\ args.speed <= v * 10
         /\ U16(ret.value, 16) = v % 65536

\* C4: the receiver and platform fields of an encoded speed/heading packet
\* both equal the unit code of the vessel index for an index in 1..5 and the
\* fallback 0x5001 for any other index, and the encoder never fails because
\* of the index: it returns a packet exactly when speed x 10 packs.
C4_VesselCodeMapping ==
  SpeedEncoderCalled =>
    LET expected == IF args.vessel_id \in 1..5 THEN UnitCode(args.vessel_id)
                    ELSE 20481
    IN  /\ ret.kind = "bytes" <=> args.speed \in -9..655359
        /\ ret.kind = "bytes" =>
             U16(ret.value, 12) = expected /\ U16(ret.value, 26) = expected

\* an index outside the table, encoded with the fallback code
C4_Witness ==
  /\ Called("create_command_packet")
  /\ args.vessel_id = 99
  /\ ret.kind = "bytes"
  /\ U16(ret.value, 12) = 20481
  /\ U16(ret.value, 26) = 20481

\* the coordinates the command-line prompt accepts, and a speed that packs
CliWaypoint(wp) ==
  /\ wp.lon \in -1800..1800
  /\ wp.lat \in -900..900
  /\ wp.speed \in 0..655359

\* C5: for every waypoint list of length N in 2..255 the route encoder
\* returns a buffer of exactly 38 + 15 N bytes whose declared length field
\* (bytes 2..3) equals 38 + 15 N.  (Stated for the waypoints the command line
\* accepts; the claim is about every list.)
C5_RouteLength ==
  (/\ Called("create_route_packet")
   /\ Len(args.waypoints) \in 2..255
   /\ \A i \in 1..Len(args.waypoints) : CliWaypoint(args.waypoints[i])) =>
    /\ ret.kind = "bytes"
    /\ Len(ret.value) = 38 + 15 * Len(args.waypoints)
    /\ U16(ret.value, 2) = 38 + 15 * Len(args.waypoints)

\* C6: for every waypoint list whose length is outside [2, 255] the route
\* encoder raises the invalid-waypoint-count error and returns no packet, and
\* send_route_command then sends no datagram, reports the error and returns
\* False.
C6_InvalidWaypointCount ==
  /\ (Called("create_route_packet") /\ Len(args.waypoints) \notin 2..255) =>
       ret = [kind |-> "raise", exc |-> "ValueError"]
  /\ (Called("send_route_command") /\ Len(args.waypoints) \notin 2..255) =>
       /\ ret = [kind |-> "bool", value |-> FALSE]
       /\ sent = <<>>
       /\ out = "create failed: ValueError"

\* a list of 256 waypoints handed to send_route_command with a working socket
C6_Witness ==
  /\ Called("send_route_command")
  /\ Len(args.waypoints) = 256
  /\ args.sendto_ok
  /\ ret = [kind |-> "bool", value |-> FALSE]
  /\ sent = <<>>

IsError(r, what) ==
  /\ r.kind = "dict"
  /\ DOMAIN r.value = {"error"}
  /\ r.value.error.what = what

\* C7: the status decoder returns the truncated-packet error for every
\* buffer shorter than 44 bytes, whatever its content, and the
\* unexpected-unit-type error for every 44-byte buffer whose byte 1 is not
\* 0x03; the result then has the error as its only key.
C7_StatusErrors ==
  Called("parse_vessel_status") =>
    /\ Len(args.data) < 44 =>
         /\ IsError(ret, "length")
         /\ ret.value.error.have = Len(args.data)
         /\ ret.value.error.need = 44
    /\ (Len(args.data) = 44 /\ args.data[2] # 3) =>
         /\ IsError(ret, "unit_id")
         /\ ret.value.error.got = args.data[2]

\* a 44-byte buffer with unit-type 0x02
C7_Witness ==
  /\ Called("parse_vessel_status")
  /\ Len(args.data) = 44
  /\ args.data[2] = 2
  /\ IsError(ret, "unit_id")

\* C8: the status decoder accepts every buffer of length >= 44 whose
\* unit-type byte is 0x03, also when it is longer than 44 bytes: it returns a
\* decoded record, not an error.
C8_StatusAcceptsLonger ==
  (Called("parse_vessel_status") /\ Len(args.data) >= 44 /\ args.data[2] = 3) =>
    /\ ret.kind = "dict"
    /\ "error" \notin DOMAIN ret.value

TargetHeaderOk(data) ==
  /\ Len(data) >= 17
  /\ data[2] = 3
  /\ U16(data, 10) = 3616

\* C3: for every contact packet that passes the header checks and declares
\* count = M in 1..255 with length >= 17 + 26 M, the contact decoder returns a
\* batch with exactly M target records, the i-th decoded from bytes
\* [17 + 26 i, 17 + 26 (i + 1)) in array order.
C3_TargetsDecoded ==
  (/\ Called("parse_surface_targets")
   /\ TargetHeaderOk(args.data)
   /\ args.data[17] \in 1..255
   /\ Len(args.data) >= 17 + 26 * args.data[17]) =>
    /\ ret.kind = "dict"
    /\ "error" \notin DOMAIN ret.value
    /\ Len(ret.value.targets) = args.data[17]
    /\ \A i \in 0..(args.data[17] - 1) :
         ret.value.targets[i + 1].batch = U16(args.data, 17 + 26 * i)

\* C9: the contact decoder checks, in this order, length >= 17, unit-type =
\* 0x03, secondary-type = 0x0E20 and length >= 17 + 26 x count (count = byte
\* 16) and reports the first check that fails; a valid header with count = 0
\* gives a batch with an empty target list.
C9_TargetCheckOrder ==
  Called("parse_surface_targets") =>
    LET data == args.data IN
    /\ Len(data) < 17 =>
         IsError(ret, "length") /\ ret.value.error.need = 17
    /\ (Len(data) >= 17 /\ data[2] # 3) => IsError(ret, "unit_id")
    /\ (Len(data) >= 17 /\ data[2] = 3 /\ U16(data, 10) # 3616) =>
         IsError(ret, "secondary_id")
    /\ (TargetHeaderOk(data) /\ Len(data) < 17 + 26 * data[17]) =>
         IsError(ret, "length") /\ ret.value.error.need = 17 + 26 * data[17]
    /\ (TargetHeaderOk(data) /\ data[17] = 0) =>
         /\ ret.kind = "dict"
         /\ "error" \notin DOMAIN ret.value
         /\ ret.value.targets = <<>>
         /\ ret.value.base_info.target_count = 0

\* a valid header declaring 3 targets in a buffer of 17 + 26 x 2 bytes
C9_Witness ==
  /\ Called("parse_surface_targets")
  /\ TargetHeaderOk(args.data)
  /\ args.data[17] = 3
  /\ Len(args.data) = 69
  /\ IsError(ret, "length")
  /\ ret.value.error.need = 95

\* C10: the route encoder never fails because of a coordinate value: for
\* every list of 2..255 waypoints with longitude in [-180, 180] and latitude
\* in [-90, 90] it returns a buffer.
C10_NoCoordinateError ==
  (/\ Called("create_route_packet")
   /\ Len(args.waypoints) \in 2..255
   /\ \A i \in 1..Len(args.waypoints) : CliWaypoint(args.waypoints[i])) =>
    ret.kind = "bytes"

----------------------------------------------------------------------------
(* The clock: get_timestamp() read again and again while time.time() advances *)

MaxClockDay == 1

\* the days read: the first days of the epoch and two days of November 2026
ClockDays == (0 .. MaxClockDay) \cup {20758, 20759}

\* readings at the start, the middle and the end of each day, on and off the
\* 0.1 ms grid
ClockReadings ==
  { [sec |-> d * 86400 + s, usec |-> u] :
      d \in ClockDays, s \in {0, 1, 43200, 86399}, u \in {0, 99, 100, 999999} }

ClockBefore(a, b) == a.sec < b.sec \/ (a.sec = b.sec /\ a.usec < b.usec)

SameDay(a, b) == a.sec \div 86400 = b.sec \div 86400

InitClock ==
  /\ now \in ClockReadings
  /\ fn = "get_timestamp"
  /\ args = <<>>
  /\ ret = NoRet
  /\ sent = <<>>
  /\ out = ""
  /\ sock = <<>>
  /\ stop_event = FALSE
  /\ inbox = <<>>
  /\ pc = "none"
  /\ shown = <<>>
  /\ session_seq = 1

\* time passes between two calls
AdvanceClock ==
  /\ \E t \in ClockReadings : ClockBefore(now, t) /\ now' = t
  /\ UNCHANGED <<fn, args, ret, sent, out, sock, stop_event, inbox, pc, shown,
                 session_seq>>

\* args keeps the reading the call took from time.time()
CallGetTimestamp ==
  /\ args' = [time |-> now]
  /\ ret' = [kind |-> "int", value |-> get_timestamp(now)]
  /\ UNCHANGED <<now, fn, sent, out, sock, stop_event, inbox, pc, shown,
                 session_seq>>

NextClock ==
  \/ AdvanceClock
  \/ CallGetTimestamp

SpecClock == InitClock /\ [][NextClock]_vars

\* C11: every call of get_timestamp returns an integer ts in [0, 864000000),
\* the 0.1 ms count of the time elapsed since the reading's midnight with the
\* remainder dropped; ts is not below the value returned by the previous call
\* when that call read an earlier or equal time of the same day; and a reading
\* within the first 0.1 ms of a day returns 0.
C11_DayRelativeTimestamp ==
  [][ ret'.kind = "int" =>
        LET t == args'.time
            ts == ret'.value
        IN  /\ 0 <= ts /\ ts < 864000000
            /\ ts \div 10000 = t.sec % 86400
            /\ (ts % 10000) * 100 <= t.usec
            /\ t.usec < (ts % 10000) * 100 + 100
            /\ (ret.kind = "int" /\ SameDay(args.time, t)
                  /\ ~ClockBefore(t, args.time)) => ts >= ret.value
            /\ (t.sec % 86400 = 0 /\ t.usec < 100) => ts = 0 ]_vars

\* a call that read the clock 99 microseconds after a midnight of November 2026
\* returned 0
C11_Witness ==
  /\ ret.kind = "int"
  /\ args.time = [sec |-> 20759 * 86400, usec |-> 99]
  /\ ret.value = 0

----------------------------------------------------------------------------
(* The geo encoding of controller.py decoded by receiver.py *)

\* every tenth of a degree of [-180, 180)
GeoDegrees == -1800 .. 1799

InitGeo ==
  /\ now = [sec |-> 0, usec |-> 0]
  /\ fn = "convert_to_geo_format"
  /\ args \in { [degree |-> m] : m \in GeoDegrees }
  /\ ret = NoRet
  /\ sent = <<>>
  /\ out = ""
  /\ sock = <<>>
  /\ stop_event = FALSE
  /\ inbox = <<>>
  /\ pc = "none"
  /\ shown = <<>>
  /\ session_seq = 1

CallConvertToGeoFormat ==
  /\ fn = "convert_to_geo_format" /\ ret = NoRet
  /\ ret' = [kind |-> "int", value |-> convert_to_geo_format(args.degree)]
  /\ UNCHANGED <<now, fn, args, sent, out, sock, stop_event, inbox, pc, shown,
                 session_seq>>

\* the decoder applied to the encoder's result; args keeps the degrees encoded
CallConvertFromGeoFormat ==
  /\ fn = "convert_to_geo_format" /\ ret.kind = "int"
  /\ fn' = "convert_from_geo_format"
  /\ args' = [geo_value |-> ret.value, degree |-> args.degree]
  /\ ret' = [kind |-> "float", value |-> convert_from_geo_format(ret.value)]
  /\ UNCHANGED <<now, sent, out, sock, stop_event, inbox, pc, shown,
                 session_seq>>

NextGeo ==
  \/ CallConvertToGeoFormat
  \/ CallConvertFromGeoFormat

SpecGeo == InitGeo /\ [][NextGeo]_vars

\* a pair is a signed 32-bit integer
FitsInt32(w) == w.hi \in -32768 .. 32767 /\ w.lo \in 0 .. 65535

\* |deg - degree / 10| <= 180 / 2^31 for deg = whole + frac / 2^31.  The
\* difference times 10 * 2^31 is 65536 * p + q and is compared with 1800.
WithinOneStep(deg, degree) ==
  LET mw == degree \div 10
      mf == degree % 10
      p == (deg.whole - mw) * 327680 + 10 * (deg.frac \div 65536) - mf * 32768
      q == 10 * (deg.frac % 65536)
  IN  /\ p \in -11 .. 1
      /\ 65536 * p + q \in -1800 .. 1800

\* C12: for every degrees value of [-180, 180) the encoded value is a signed
\* 32-bit integer, and decoding it gives a value at most one fixed-point step
\* (180 / 2^31 degrees) away from the degrees encoded.
C12_GeoRoundTrip ==
  /\ (fn = "convert_to_geo_format" /\ ret.kind = "int") => FitsInt32(ret.value)
  /\ (fn = "convert_from_geo_format" /\ ret.kind = "float") =>
       /\ FitsInt32(args.geo_value)
       /\ WithinOneStep(ret.value, args.degree)

\* -179.9 degrees went through both conversions and came back inexact
C12_Witness ==
  /\ fn = "convert_from_geo_format" /\ ret.kind = "float"
  /\ args.degree = -1799
  /\ ret.value.whole = -180 /\ ret.value.frac > 0

----------------------------------------------------------------------------
(* send_command *)

\* C13: a call of send_command makes exactly three calls on its socket, in this
\* order: it opens it, hands the packet it was given to sendto once, and closes
\* it, whether sendto succeeds or raises; it returns True when sendto succeeds
\* and False when sendto raises, raises nothing itself, and exactly the packets
\* whose sendto succeeded have gone out.
C13_SendCommandOnce ==
  Called("send_command") =>
    /\ Len(sock) = 3
    /\ sock[1].op = "socket"
    /\ sock[2].op = "sendto" /\ sock[2].data = args.packet
    /\ sock[3].op = "close"
    /\ ret.kind = "bool"
    /\ ret.value = args.sendto_ok
    /\ sent = IF args.sendto_ok THEN <<args.packet>> ELSE <<>>

\* sendto raised on a 28-byte speed packet: False was returned and the socket
\* was closed
C13_Witness ==
  /\ Called("send_command")
  /\ ~args.sendto_ok /\ Len(args.packet) = 28
  /\ ret = [kind |-> "bool", value |-> FALSE]
  /\ sock[Len(sock)].op = "close"

----------------------------------------------------------------------------
(* receiver.py: the receive loop of receiver_thread_func(sockets, stop_event) *)

MaxDatagrams == 3

MULTICAST_GROUP == "226.100.100.101"
TARGET_GROUP == "226.100.100.102"

\* sockets.items(), in the order main() builds the dictionary
SocketGroups == <<MULTICAST_GROUP, TARGET_GROUP>>

\* the datagrams that arrive on the status group: a status packet, an empty
\* datagram, a packet of another unit type, a status packet one byte too long
StatusDatagrams ==
  { Datagram(44, 3, 832, 0, 37), Datagram(0, 3, 832, 0, 0),
    Datagram(44, 1, 832, 0, 37), Datagram(45, 3, 832, 0, 37) }

\* on the target group: a target packet without targets, and datagrams that
\* are too short, of another unit type, of another secondary type, with a
\* count larger than the payload, with a count the payload covers
TargetDatagrams ==
  { Datagram(17, 3, 3616, 0, 0), Datagram(16, 3, 3616, 0, 1),
    Datagram(17, 1, 3616, 0, 0), Datagram(17, 3, 3617, 0, 0),
    Datagram(17, 3, 3616, 2, 0), Datagram(43, 3, 3616, 1, 37) }

RecvDatagrams ==
  [g \in {MULTICAST_GROUP, TARGET_GROUP} |->
     IF g = MULTICAST_GROUP THEN StatusDatagrams ELSE TargetDatagrams]

Pending == Len(inbox[MULTICAST_GROUP]) + Len(inbox[TARGET_GROUP])

\* the position of the thread at the recvfrom of the i-th socket
AtSocket(i) == IF i = 1 THEN "recvfrom 1" ELSE "recvfrom 2"

\* the parse function chosen by the group of the socket
ParseFor(group, data) ==
  IF group = MULTICAST_GROUP THEN parse_vessel_status(data)
  ELSE parse_surface_targets(data)

\* what the socket of each group makes of each datagram: the parse function
\* applied to the bytes recvfrom(1024) returns
Decoded ==
  [g \in {MULTICAST_GROUP, TARGET_GROUP} |->
     [d \in RecvDatagrams[g] |-> ParseFor(g, Slice(d, 0, RecvBufSize))]]

InitRecv ==
  /\ now = [sec |-> 0, usec |-> 0]
  /\ fn = "receiver_thread_func"
  /\ args = <<>>
  /\ ret = NoRet
  /\ sent = <<>>
  /\ out = ""
  /\ sock = <<>>
  /\ stop_event = FALSE
  /\ inbox = [g \in {MULTICAST_GROUP, TARGET_GROUP} |-> <<>>]
  /\ pc = "while"
  /\ shown = <<>>
  /\ session_seq = 1

\* a datagram reaches one of the open sockets
Arrive ==
  /\ pc \notin {"closed", "crashed"}
  /\ Pending + Len(shown) < MaxDatagrams
  /\ \E g \in {MULTICAST_GROUP, TARGET_GROUP} : \E d \in RecvDatagrams[g] :
       inbox' = [inbox EXCEPT ![g] = Append(@, d)]
  /\ UNCHANGED <<now, fn, args, ret, sent, out, sock, stop_event, pc, shown,
                 session_seq>>

\* main(): stop_event.set() after Ctrl+C
SetStopEvent ==
  /\ ~stop_event
  /\ stop_event' = TRUE
  /\ UNCHANGED <<now, fn, args, ret, sent, out, sock, inbox, pc, shown,
                 session_seq>>

\* while not stop_event.is_set(): ...; after the loop the sockets are closed
LoopTest ==
  /\ pc = "while"
  /\ pc' = IF stop_event THEN "closed" ELSE AtSocket(1)
  /\ UNCHANGED <<now, fn, args, ret, sent, out, sock, stop_event, inbox,
                 shown, session_seq>>

\* one pass of the for loop: recvfrom(1024) on the i-th socket times out when
\* nothing waits; otherwise the datagram is parsed and the result displayed.
\* An exception other than socket.timeout reaches the outer except clause and
\* ends the thread.
RecvFrom(i) ==
  /\ pc = AtSocket(i)
  /\ LET group == SocketGroups[i]
         next == IF i < Len(SocketGroups) THEN AtSocket(i + 1) ELSE "while"
     IN  IF inbox[group] = <<>>
         THEN /\ pc' = next
              /\ UNCHANGED <<ret, inbox, shown, session_seq>>
         ELSE LET data == Slice(Head(inbox[group]), 0, RecvBufSize)
                  result == Decoded[group][Head(inbox[group])]
              IN  /\ inbox' = [inbox EXCEPT ![group] = Tail(@)]
                  /\ ret' = result
                  /\ IF result.kind = "raise"
                     THEN pc' = "crashed" /\ shown' = shown
                     ELSE /\ pc' = next
                          /\ shown' = Append(shown, [group |-> group, data |-> data,
                                                     result |-> result.value])
  /\ UNCHANGED <<now, fn, args, sent, out, sock, stop_event, session_seq>>

LoopStep == LoopTest \/ RecvFrom(1) \/ RecvFrom(2)

NextRecv ==
  \/ Arrive
  \/ SetStopEvent
  \/ LoopTest
  \/ RecvFrom(1)
  \/ RecvFrom(2)

\* the receiver thread is a running thread: its next step is eventually taken
SpecRecv == InitRecv /\ [][NextRecv]_vars /\ WF_vars(LoopStep)

\* the malformations the loop must survive, read off the datagram's bytes
Malformed(group, data) ==
  \/ Len(data) < (IF group = MULTICAST_GROUP THEN 44 ELSE 17)
  \/ data[2] # 3
  \/ group = TARGET_GROUP /\ U16(data, 10) # 3616
  \/ group = TARGET_GROUP /\ Len(data) < 17 + 26 * data[17]

LoopSurvives ==
  /\ pc # "crashed"
  /\ pc = "closed" => stop_event
  /\ \A k \in 1..Len(shown) :
       /\ shown[k].result = ParseFor(shown[k].group, shown[k].data).value
       /\ Malformed(shown[k].group, shown[k].data) =>
            "error" \in DOMAIN shown[k].result

\* C14: the receive loop never ends through an exception and is left only
\* after the stop event is set; each datagram received is displayed as the
\* result of parsing that datagram alone, an error for every malformed one;
\* and while a datagram waits on a socket and the stop event is not set, a
\* further datagram is eventually received and displayed or the stop event is
\* set.
C14_LoopSurvivesMalformed ==
  /\ []LoopSurvives
  /\ \A n \in 0..MaxDatagrams :
       (Len(shown) = n /\ Pending > 0 /\ ~stop_event)
         ~> (Len(shown) > n \/ stop_event)

\* after a datagram too short to decode, a status packet was decoded, and the
\* loop runs on
C14_Witness ==
  /\ pc \in {"while", AtSocket(1), AtSocket(2)} /\ ~stop_event
  /\ Len(shown) >= 2
  /\ shown[1].group = MULTICAST_GROUP /\ shown[1].data = <<>>
  /\ "error" \in DOMAIN shown[1].result
  /\ shown[2].group = MULTICAST_GROUP /\ "heading" \in DOMAIN shown[2].result

----------------------------------------------------------------------------
(* controller.py: the command-line session of main().  One action is one     *)
(* pass of the while loop, from the menu to the next menu.                   *)

\* what the operator can type for a speed/heading command that passes the
\* checks of main(): a vessel of 1..5, a speed, a heading of [0, 360)
CliSpeedInputs ==
  [vessel_id : {1, 5}, speed : {500, 1050, -100}, direction : {0, 35999}]

\* and for a route command: 2 waypoints with longitude in [-180, 180] and
\* latitude in [-90, 90]
CliRouteInputs ==
  { [vessel_id |-> v, waypoints |-> WaypointList(2, b, w, 1)] :
      v \in {1, 5}, b \in {Waypoint(1164, 399, 500)},
      w \in {Waypoint(1164, 399, 500), Waypoint(1800, 0, 500)} }

InitCli ==
  /\ now \in {[sec |-> 1793534400, usec |-> 500000]}
  /\ fn = "main"
  /\ args = <<>>
  /\ ret = NoRet
  /\ sent = <<>>
  /\ out = ""
  /\ sock = <<>>
  /\ stop_event = FALSE
  /\ inbox = <<>>
  /\ pc = "menu"
  /\ shown = <<>>
  /\ session_seq = 1

\* choice '0', an answer other than 'y' to the last question, or Ctrl+C
CliExit ==
  /\ pc = "menu"
  /\ pc' = "exited"
  /\ UNCHANGED <<now, fn, args, ret, sent, out, sock, stop_event, inbox, shown,
                 session_seq>>

\* an input main() rejects: a vessel outside 1..5, a heading outside [0, 360),
\* a waypoint count outside 2..255, a coordinate out of range, another choice,
\* or text that is no number; the loop goes back to the menu
CliRejectedInput ==
  /\ pc = "menu"
  /\ \E what \in {"vessel_id", "direction", "waypoint_count", "lon", "lat", "choice",
                  "number"} :
       /\ args' = [choice |-> "rejected", what |-> what]
       /\ out' = "input error"
  /\ ret' = NoRet
  /\ sent' = <<>>
  /\ sock' = <<>>
  /\ UNCHANGED <<now, fn, stop_event, inbox, pc, shown, session_seq>>

\* choice '1'.  struct.error of create_speed_packet is no ValueError: it leaves
\* main() and ends the program.
CliSpeedCommand ==
  /\ pc = "menu"
  /\ \E in \in CliSpeedInputs, sendto_ok \in BOOLEAN :
       LET packet == create_speed_packet(now, session_seq, in.vessel_id, in.speed,
                                         in.direction)
           r == send_speed(packet.value, sendto_ok, <<>>)
       IN  /\ args' = [choice |-> "1", vessel_id |-> in.vessel_id, speed |-> in.speed,
                       direction |-> in.direction, sendto_ok |-> sendto_ok]
           /\ IF packet.kind = "raise"
              THEN /\ pc' = "crashed"
                   /\ ret' = packet
                   /\ sent' = <<>>
                   /\ out' = ""
                   /\ sock' = <<>>
                   /\ UNCHANGED session_seq
              ELSE /\ pc' = pc
                   /\ ret' = [kind |-> "bool", value |-> r.ret]
                   /\ sent' = r.sent
                   /\ out' = r.out
                   /\ sock' = r.sock
                   /\ session_seq' = IF r.ret THEN (session_seq + 1) % 256
                                     ELSE session_seq
  /\ UNCHANGED <<now, fn, stop_event, inbox, shown>>

\* choice '2'
CliRouteCommand ==
  /\ pc = "menu"
  /\ \E in \in CliRouteInputs, sendto_ok \in BOOLEAN :
       LET r == send_route_command(now, in.vessel_id, in.waypoints, sendto_ok, <<>>)
       IN  /\ args' = [choice |-> "2", vessel_id |-> in.vessel_id,
                       waypoints |-> in.waypoints, sendto_ok |-> sendto_ok]
           /\ ret' = [kind |-> "bool", value |-> r.ret]
           /\ sent' = r.sent
           /\ out' = r.out
           /\ sock' = r.sock
           /\ session_seq' = IF r.ret THEN (session_seq + 1) % 256 ELSE session_seq
  /\ UNCHANGED <<now, fn, stop_event, inbox, pc, shown>>

NextCli ==
  \/ CliExit
  \/ CliRejectedInput
  \/ CliSpeedCommand
  \/ CliRouteCommand

SpecCli == InitCli /\ [][NextCli]_vars

\* C15: in a session the counter starts at 1; a pass of the loop that sends a
\* datagram puts the counter's value into the datagram's sequence field (its
\* first byte) and then advances the counter by 1 modulo 256; a pass that
\* sends nothing (failed send, rejected input) leaves the counter unchanged.
C15_SessionSequence ==
  /\ session_seq = 1
  /\ [][ IF pc' = "menu" /\ sent' # <<>>
         THEN /\ sent'[1][1] = session_seq
              /\ session_seq' = (session_seq + 1) % 256
         ELSE session_seq' = session_seq ]_vars

----------------------------------------------------------------------------
(* The angles of a status packet *)

\* the byte offsets of heading, course, gimbal angle and body angle
AngleOffsets ==
  [heading |-> 28, course |-> 30, gimbal_angle |-> 36, body_angle |-> 40]

\* C16: in every status packet that parse_vessel_status decodes, each of the
\* four angles is raw * 180 / 2^15 for the unsigned 16-bit raw value of its
\* field, a value of [0, 360).
C16_AnglesUnsigned ==
  (Called("parse_vessel_status") /\ ~("error" \in DOMAIN ret.value)) =>
    \A f \in DOMAIN AngleOffsets :
      LET raw == U16(args.data, AngleOffsets[f])
      IN  /\ ret.value[f] = [whole |-> (raw * 180) \div 32768,
                             frac |-> (raw * 180) % 32768]
          /\ ret.value[f].whole \in 0 .. 359

====
